---- MODULE Spec2Model ----
(***************************************************************************)
(* Model of src/ops/miningManager.go: the mining run loop (MiningMgr.Start) *)
(* and the dispute tracker (Dispute.Start, removePending, addValTellor).   *)
(***************************************************************************)
EXTENDS Integers, Sequences, FiniteSets, TLC

(***************************************************************************)
(* Bounds of the model.                                                    *)
(***************************************************************************)
MaxTicks == 2
MaxSignals == 2
MaxResults == 2

\* A pointer (*pow.Work, *pow.Result) is Nil or Ptr(record).
Nil == <<>>
Ptr(x) == <<x>>
Deref(p) == p[1]
\* PullUpdates returning nil: nothing new to report.
NoChallenge == "nil"
Challenges == {"c1", "c2"}
Nonces == {"n1", "n2"}
\* math.MaxInt64 does not fit TLC's integers: kept as a symbol.
MaxInt64 == "math.MaxInt64"
\* uint64(rand.Int63()): two of the values it can take.
Starts == {0, 1}

VARIABLES
    mpc,        \* position of the goroutine launched by MiningMgr.Start
    Running,    \* MiningMgr.Running
    exitCh,     \* signals waiting on mgr.exitCh
    sigs,       \* signals sent so far by the owner of exitCh
    ticks,      \* ticks of ticker.C consumed so far
    sendVal,    \* value of the pending send on the unbuffered input channel
    lastPull,   \* what the latest PullUpdates call returned
    inputLog,   \* what the pool received on input, in order
    poolPc,     \* position of mgr.group.Mine
    poolStop,   \* the pool consumed the nil Work
    poolWork,   \* the Work the pool searches
    poolRes,    \* the Result of the pool's pending send on output
    found,      \* Results the pool has produced so far
    recvd,      \* what the loop received on output, in order
    handled,    \* HandleSolution calls, in order
    exitSeenAt  \* number of HandleSolution calls made when exitCh was first read, -1 before

mvars == <<mpc, Running, exitCh, sigs, ticks, sendVal, lastPull, inputLog, poolPc,
           poolStop, poolWork, poolRes, found, recvd, handled, exitSeenAt>>

VARIABLES
    apc,      \* "idle": no call; "ready": about to call addValTellor; "returned"
    aEvent,   \* the event addValTellor is called with
    aEnv,     \* what the appender, the PSR and the clock do during the call
    aRes      \* what the call did

avars == <<apc, aEvent, aEnv, aRes>>

VARIABLES
    dpc,            \* position of Dispute.Start (the subscription task)
    ctxDone,        \* self.ctx is cancelled (Stop was called)
    curEvent,       \* the event Dispute.Start is processing
    pendingAppend,  \* self.pendingAppend: TxHash -> the task whose cancel func is stored, 0: no entry
    mtx,            \* holder of self.mtx: Free, Sub or a task
    tasks,          \* the delayed-commit goroutines, in the order they were launched
    nEvents,        \* events delivered so far
    subMissing,     \* removePending calls of the subscription task that found no entry
    evLog           \* the events received on the events channel, in order

dvars == <<dpc, ctxDone, curEvent, pendingAppend, mtx, tasks, nEvents, subMissing, evLog>>

vars == <<mvars, avars, dvars>>

Last(s) == s[Len(s)]

(***************************************************************************)
(* MiningMgr                                                               *)
(***************************************************************************)
\* CreateMiningManager: the manager as constructed, Running: false.
MiningInit ==
    /\ mpc = "idle"
    /\ Running = FALSE
    /\ exitCh = 0
    /\ sigs = 0
    /\ ticks = 0
    /\ sendVal = Nil
    /\ lastPull = NoChallenge
    /\ inputLog = <<>>
    /\ poolPc = "off"
    /\ poolStop = FALSE
    /\ poolWork = Nil
    /\ poolRes = Nil
    /\ found = 0
    /\ recvd = <<>>
    /\ handled = <<>>
    /\ exitSeenAt = -1

\* &pow.Work{Challenge:challenge, Start:uint64(rand.Int63()), N:math.MaxInt64}
Work(challenge, start) == Ptr([Challenge |-> challenge, Start |-> start, N |-> MaxInt64])

\* A handler that skips a (challenge, nonce) pair it was already given.
HandleSolutionOnce(calls, challenge, nonce) ==
    IF \E k \in DOMAIN calls : calls[k] = <<challenge, nonce>>
      THEN calls
      ELSE Append(calls, <<challenge, nonce>>)

\* mgr.solHandler.HandleSolution(ctx, result.Work.Challenge, result.Nonce)
HandleSolution(calls, challenge, nonce) == Append(calls, <<challenge, nonce>>)

\* The owner of exitCh delivers a signal.
Signal ==
    /\ sigs < MaxSignals
    /\ sigs' = sigs + 1
    /\ exitCh' = exitCh + 1
    /\ UNCHANGED <<mpc, Running, ticks, sendVal, lastPull, inputLog, poolPc, poolStop,
                   poolWork, poolRes, found, recvd, handled, exitSeenAt, avars, dvars>>

\* mgr.Start: go func(ctx) {...}(ctx)
Start ==
    /\ mpc = "idle"
    /\ mpc' = "config"
    /\ UNCHANGED <<Running, exitCh, sigs, ticks, sendVal, lastPull, inputLog, poolPc,
                   poolStop, poolWork, poolRes, found, recvd, handled, exitSeenAt, avars, dvars>>

\* config.GetConfig() fails: log.Fatal aborts the process.
ConfigFail ==
    /\ mpc = "config"
    /\ mpc' = "fatal"
    /\ UNCHANGED <<Running, exitCh, sigs, ticks, sendVal, lastPull, inputLog, poolPc,
                   poolStop, poolWork, poolRes, found, recvd, handled, exitSeenAt, avars, dvars>>

\* config read; ticker and channels made; go mgr.group.Mine(input, output);
\* then the initial sendWork() is called.
ConfigOk ==
    /\ mpc = "config"
    /\ mpc' = "sendWork"
    /\ poolPc' = "run"
    /\ UNCHANGED <<Running, exitCh, sigs, ticks, sendVal, lastPull, inputLog,
                   poolStop, poolWork, poolRes, found, recvd, handled, exitSeenAt, avars, dvars>>

\* A sendWork that re-sends the first challenge when there is no update.
SendWorkAlways ==
    /\ mpc = "sendWork"
    /\ \E challenge \in Challenges \cup {NoChallenge} :
        /\ lastPull' = challenge
        /\ \E start \in Starts :
            /\ sendVal' = Work(IF challenge # NoChallenge THEN challenge ELSE "c1", start)
            /\ mpc' = "sendInput"
    /\ UNCHANGED <<Running, exitCh, sigs, ticks, inputLog, poolPc, poolStop,
                   poolWork, poolRes, found, recvd, handled, exitSeenAt, avars, dvars>>

\* sendWork: challenge := mgr.tasker.PullUpdates(); if challenge != nil { input <- &Work{...} }
SendWork ==
    /\ mpc = "sendWork"
    /\ \E challenge \in Challenges \cup {NoChallenge} :
        /\ lastPull' = challenge
        /\ IF challenge # NoChallenge
             THEN \E start \in Starts :
                    /\ sendVal' = Work(challenge, start)
                    /\ mpc' = "sendInput"
             ELSE /\ mpc' = "select"
                  /\ UNCHANGED sendVal
    /\ UNCHANGED <<Running, exitCh, sigs, ticks, inputLog, poolPc, poolStop,
                   poolWork, poolRes, found, recvd, handled, exitSeenAt, avars, dvars>>

\* The exit case returning at once instead of sending nil to the pool.
SelectExitReturns ==
    /\ mpc = "select"
    /\ exitCh > 0
    /\ exitCh' = exitCh - 1
    /\ Running' = FALSE
    /\ mpc' = "done"
    /\ exitSeenAt' = IF exitSeenAt = -1 THEN Len(handled) ELSE exitSeenAt
    /\ UNCHANGED <<sigs, ticks, sendVal, lastPull, inputLog, poolPc, poolStop,
                   poolWork, poolRes, found, recvd, handled, avars, dvars>>

\* case <-mgr.exitCh: input <- nil   (the send blocks until the pool receives)
SelectExit ==
    /\ mpc = "select"
    /\ exitCh > 0
    /\ exitCh' = exitCh - 1
    /\ sendVal' = Nil
    /\ mpc' = "sendInput"
    /\ exitSeenAt' = IF exitSeenAt = -1 THEN Len(handled) ELSE exitSeenAt
    /\ UNCHANGED <<Running, sigs, ticks, lastPull, inputLog, poolPc, poolStop,
                   poolWork, poolRes, found, recvd, handled, avars, dvars>>

\* case result := <-output: nil ends the task, anything else goes to HandleSolution.
SelectOutput ==
    /\ mpc = "select"
    /\ poolPc \in {"sendResult", "sendNil"}
    /\ recvd' = Append(recvd, poolRes)
    /\ IF poolRes = Nil
         THEN /\ Running' = FALSE
              /\ mpc' = "done"
              /\ UNCHANGED handled
         ELSE /\ handled' = HandleSolution(handled, Deref(Deref(poolRes).Work).Challenge,
                                                 Deref(poolRes).Nonce)
              /\ UNCHANGED <<Running, mpc>>
    /\ poolPc' = IF poolPc = "sendNil" THEN "stopped" ELSE "run"
    /\ poolRes' = Nil
    /\ UNCHANGED <<exitCh, sigs, ticks, sendVal, lastPull, inputLog, poolStop,
                   poolWork, found, exitSeenAt, avars, dvars>>

\* case _ = <-ticker.C: sendWork()
SelectTick ==
    /\ mpc = "select"
    /\ ticks < MaxTicks
    /\ ticks' = ticks + 1
    /\ mpc' = "sendWork"
    /\ UNCHANGED <<Running, exitCh, sigs, sendVal, lastPull, inputLog, poolPc, poolStop,
                   poolWork, poolRes, found, recvd, handled, exitSeenAt, avars, dvars>>

(***************************************************************************)
(* The Worker Pool (mgr.group.Mine), an external collaborator: it reads    *)
(* Work from input until it reads nil, writes Results to output and writes *)
(* nil once it has stopped. Its workers may run in parallel, so a Result   *)
(* found before the stop request may still be written after it.            *)
(***************************************************************************)
\* The pool receives the loop's pending send on input.
PoolRecvInput ==
    /\ poolPc = "run"
    /\ ~poolStop
    /\ mpc = "sendInput"
    /\ inputLog' = Append(inputLog, sendVal)
    /\ IF sendVal = Nil
         THEN /\ poolStop' = TRUE
              /\ UNCHANGED poolWork
         ELSE /\ poolWork' = sendVal
              /\ UNCHANGED poolStop
    /\ sendVal' = Nil
    /\ mpc' = "select"
    /\ UNCHANGED <<Running, exitCh, sigs, ticks, lastPull, poolPc, poolRes, found,
                   recvd, handled, exitSeenAt, avars, dvars>>

\* A worker found a nonce for the current Work: the pool blocks in output <- result.
PoolFind ==
    /\ poolPc = "run"
    /\ poolWork # Nil
    /\ found < MaxResults
    /\ \E nonce \in Nonces : poolRes' = Ptr([Work |-> poolWork, Nonce |-> nonce])
    /\ found' = found + 1
    /\ poolPc' = "sendResult"
    /\ UNCHANGED <<mpc, Running, exitCh, sigs, ticks, sendVal, lastPull, inputLog,
                   poolStop, poolWork, recvd, handled, exitSeenAt, avars, dvars>>

\* After the nil Work the pool confirms it has stopped: output <- nil.
PoolStop ==
    /\ poolPc = "run"
    /\ poolStop
    /\ poolRes' = Nil
    /\ poolPc' = "sendNil"
    /\ UNCHANGED <<mpc, Running, exitCh, sigs, ticks, sendVal, lastPull, inputLog,
                   poolStop, poolWork, found, recvd, handled, exitSeenAt, avars, dvars>>

(***************************************************************************)
(* Dispute.addValTellor                                                    *)
(***************************************************************************)
\* const reorgEventWait = 3 * time.Minute (the model's clock counts minutes)
ReorgEventWait == 3
MaxObs == 2
MaxClock == 1
MaxEvents == 2

\* A *big.Int of the event (uint256 on chain) is hi * 2^64 + lo, lo < 2^63.
Big(hi, lo) == [hi |-> hi, lo |-> lo]
\* (*big.Int).Int64(): the low 64 bits of the value.
Int64(b) == b.lo
\* (*big.Int).String(): the decimal text of the whole value, one text per value.
String(b) == IF b.hi = 0 THEN ToString(b.lo) ELSE ToString(b.hi) \o "*2^64+" \o ToString(b.lo)
\* float64(int64): exact for the magnitudes of the model (below 2^53).
Float64(n) == n

\* labels.Labels after sort.Sort: the label names are distinct, so the sorted
\* slice is given by its set of (name, value) pairs.
OracleLabels(event, i) ==
    { <<"__name__", "oracle_value">>, <<"contract", "tellor">>,
      <<"id", String(event.RequestId[i])>>, <<"miner", event.Miner>> }

PsrLabels(event, i) ==
    { <<"__name__", "psr_value">>, <<"contract", "tellor">>,
      <<"id", String(event.RequestId[i])>> }

\* What the collaborators of one addValTellor call do: which of its Append and
\* GetValue calls fails first (0: none; call 3(i-1)+1 is the oracle Append of
\* observation i, 3(i-1)+2 its GetValue, 3(i-1)+3 its psr Append), whether
\* Commit and Rollback fail, the clock at entry and its advance per time.Now(),
\* and the reference values of the PSR.
Envs(event) ==
    [ failAt : 0..(3 * Len(event.Value)),
      commitFails : BOOLEAN,
      rollbackFails : BOOLEAN,
      t0 : {10},
      dt : 0..MaxClock,
      psr : {100, 200} ]

\* self.psrTellor.GetValue(id int64, at time.Time): the reference value of id.
GetValue(env, id, at) == env.psr + id

\* appender.Append(0, lbls, ts, v): the sample is buffered in the appender.
AppenderAppend(st, lbls, ts, v) ==
    [st EXCEPT !.calls = Append(@, [op |-> "Append", labels |-> lbls, ts |-> ts, v |-> v]),
               !.buf = Append(@, [labels |-> lbls, ts |-> ts, v |-> v])]

\* A failed Append or GetValue: the call is made and buffers nothing.
FailedCall(st, op) ==
    [st EXCEPT !.calls = Append(@, [op |-> op, labels |-> {}, ts |-> 0, v |-> 0])]

\* appender.Commit(): a Commit that succeeds makes the buffered samples visible.
AppenderCommit(st, env) ==
    [st EXCEPT !.calls = Append(@, [op |-> "Commit", labels |-> {}, ts |-> 0, v |-> 0]),
               !.committed = IF env.commitFails THEN <<>> ELSE st.buf,
               !.buf = <<>>]

\* appender.Rollback(): the buffered samples are dropped.
AppenderRollback(st, env) ==
    [st EXCEPT !.calls = Append(@, [op |-> "Rollback", labels |-> {}, ts |-> 0, v |-> 0]),
               !.buf = <<>>,
               !.log = IF env.rollbackFails THEN Append(@, "db rollback failed") ELSE @]

\* errors.Wrap(err, msg) of github.com/pkg/errors: nil when err is nil.
ErrorsWrap(err) == err

\* time.Now(): reads the clock, which then advances.
Tick(st, env) == [st EXCEPT !.now = @ + env.dt]

\* The deferred function without the return of line 472: Commit follows Rollback.
DeferredNoReturn(st, env) ==
    IF st.err
      THEN AppenderCommit(AppenderRollback(st, env), env)
      ELSE AppenderCommit(st, env)

\* The deferred function of addValTellor (lines 467-477): Rollback when the
\* named result err is set, else Commit; a failed Commit wraps err, which is nil.
\* A failed Rollback is logged in the appender's own step.
Deferred(st, env) ==
    IF st.err
      THEN AppenderRollback(st, env)
      ELSE LET c == AppenderCommit(st, env)
           IN  IF env.commitFails THEN [c EXCEPT !.err = ErrorsWrap(st.err)] ELSE c

\* The iteration with the psr sample stamped by a time.Now() of its own
\* instead of the ts taken at line 480.
IterationFreshTs(st, event, env, i) ==
    LET ts == st.now
        s1 == Tick(st, env)
        k == 3 * (i - 1)
    IN  IF env.failAt = k + 1
          THEN [FailedCall(s1, "Append") EXCEPT !.err = TRUE]
          ELSE
            LET s2 == AppenderAppend(s1, OracleLabels(event, i), ts,
                                     Float64(Int64(event.Value[i])))
                at == s2.now - ReorgEventWait
                s3 == Tick(s2, env)
            IN  IF env.failAt = k + 2
                  THEN [FailedCall(s3, "GetValue") EXCEPT !.err = TRUE]
                  ELSE
                    LET valExp == GetValue(env, Int64(event.RequestId[i]), at)
                        s4 == [s3 EXCEPT !.calls = Append(@,
                                  [op |-> "GetValue", labels |-> {},
                                   ts |-> at, v |-> Int64(event.RequestId[i])])]
                    IN  IF env.failAt = k + 3
                          THEN [FailedCall(s4, "Append") EXCEPT !.err = TRUE]
                          ELSE [AppenderAppend(s4, PsrLabels(event, i), s4.now, Float64(valExp))
                                  EXCEPT !.done = i]

\* One iteration of the range loop for observation i (lines 479-521). The
\* result has err set when the iteration returned an error.
Iteration(st, event, env, i) ==
    LET ts == st.now
        s1 == Tick(st, env)
        k == 3 * (i - 1)
    IN  IF env.failAt = k + 1
          THEN [FailedCall(s1, "Append") EXCEPT !.err = TRUE]
          ELSE
            LET s2 == AppenderAppend(s1, OracleLabels(event, i), ts,
                                     Float64(Int64(event.Value[i])))
                at == s2.now - ReorgEventWait
                s3 == Tick(s2, env)
            IN  IF env.failAt = k + 2
                  THEN [FailedCall(s3, "GetValue") EXCEPT !.err = TRUE]
                  ELSE
                    LET valExp == GetValue(env, Int64(event.RequestId[i]), at)
                        s4 == [s3 EXCEPT !.calls = Append(@,
                                  [op |-> "GetValue", labels |-> {},
                                   ts |-> at, v |-> Int64(event.RequestId[i])])]
                    IN  IF env.failAt = k + 3
                          THEN [FailedCall(s4, "Append") EXCEPT !.err = TRUE]
                          ELSE [AppenderAppend(s4, PsrLabels(event, i), ts, Float64(valExp))
                                  EXCEPT !.done = i]

\* The range loop with the error returns dropped: it goes on after a failure.
RECURSIVE RangeNoReturn(_, _, _, _)
RangeNoReturn(st, event, env, i) ==
    IF i > Len(event.Value)
      THEN st
      ELSE LET s == Iteration(st, event, env, i)
           IN  RangeNoReturn([s EXCEPT !.err = FALSE], event, env, i + 1)

\* for i, valAct := range event.Value {...}; return nil
RECURSIVE Range(_, _, _, _)
Range(st, event, env, i) ==
    IF i > Len(event.Value)
      THEN st
      ELSE LET s == Iteration(st, event, env, i)
           IN  IF s.err THEN s ELSE Range(s, event, env, i + 1)

\* addValTellor(event): appender := self.tsDB.Appender(ctx); defer ...; the loop.
\* calls: the calls made on the appender and the PSR, in order; buf: the samples
\* the appender holds; committed: the samples a Commit made visible; err: the
\* error returned is not nil; done: observations fully processed.
AddValTellor(event, env) ==
    Deferred(Range([calls |-> <<>>, buf |-> <<>>, committed |-> <<>>, err |-> FALSE,
                    now |-> env.t0, done |-> 0, log |-> <<>>], event, env, 1), env)

\* The events of the model: RequestId[i] and Value[i] of the NonceSubmitted event.
Observations ==
    { [id |-> Big(0, 1), val |-> Big(0, 42)],
      [id |-> Big(0, 2), val |-> Big(1, 7)],
      [id |-> Big(1, 1), val |-> Big(0, 5)] }

ObsLists == UNION { [1..n -> Observations] : n \in 1..MaxObs }

Event(removed, hash, obs) ==
    [Removed |-> removed, TxHash |-> hash, Miner |-> "m1",
     RequestId |-> [i \in 1..Len(obs) |-> obs[i].id],
     Value |-> [i \in 1..Len(obs) |-> obs[i].val]]

NoEvent == Event(FALSE, "", <<>>)
NoEnv == [failAt |-> 0, commitFails |-> FALSE, rollbackFails |-> FALSE,
          t0 |-> 0, dt |-> 0, psr |-> 0]
NoRes == [calls |-> <<>>, buf |-> <<>>, committed |-> <<>>, err |-> FALSE,
          now |-> 0, done |-> 0, log |-> <<>>]

AppendIdle ==
    /\ apc = "idle"
    /\ aEvent = NoEvent
    /\ aEnv = NoEnv
    /\ aRes = NoRes

AppendInit ==
    /\ apc = "ready"
    /\ aEvent \in { Event(FALSE, "k1", obs) : obs \in ObsLists }
    /\ aEnv \in Envs(aEvent)
    /\ aRes = NoRes

\* self.addValTellor(event)
CallAddValTellor ==
    /\ apc = "ready"
    /\ aRes' = AddValTellor(aEvent, aEnv)
    /\ apc' = "returned"
    /\ UNCHANGED <<aEvent, aEnv, mvars, dvars>>


MiningNext ==
    \/ Signal
    \/ Start
    \/ ConfigFail
    \/ ConfigOk
    \/ SendWork
    \/ SelectExit
    \/ SelectOutput
    \/ SelectTick
    \/ PoolRecvInput
    \/ PoolFind
    \/ PoolStop

(***************************************************************************)
(* Dispute: the subscription task, the pending map and the delayed-commit  *)
(* tasks.                                                                  *)
(***************************************************************************)
\* event.Raw.TxHash.String(), the key of pendingAppend
Hashes == {"k1", "k2"}
\* Hashes are opaque: the first one the subscription delivers is called k1.
FirstHash == "k1"

\* Holders of self.mtx: nobody, the subscription task, or task t (t >= 1).
Free == 0
Sub == -1

\* The events the subscription delivers in this specification.
DisputeEvents ==
    { Event(removed, hash, <<[id |-> Big(0, 1), val |-> Big(0, 42)]>>) :
        removed \in BOOLEAN, hash \in Hashes }

\* New: pendingAppend: make(map[string]context.CancelFunc), ctx not cancelled.
DisputeInit ==
    /\ dpc = "initSub"
    /\ ctxDone = FALSE
    /\ curEvent = NoEvent
    /\ pendingAppend = [h \in Hashes |-> 0]
    /\ mtx = Free
    /\ tasks = <<>>
    /\ nEvents = 0
    /\ subMissing = 0
    /\ evLog = <<>>

\* The body of removePending under the lock (lines 452-458), called by `by`:
\* without an entry it logs and returns; else it calls the stored cancel func
\* and deletes the entry.
RemovePending(pending, ts, hash, by) ==
    IF pending[hash] = 0
      THEN [pending |-> pending, tasks |-> ts, missing |-> TRUE]
      ELSE [pending |-> [pending EXCEPT ![hash] = 0],
            tasks |-> [ts EXCEPT ![pending[hash]].cancelled = TRUE,
                                 ![pending[hash]].cancelBy = @ \cup {by},
                                 ![pending[hash]].cancelAt =
                                     IF ts[pending[hash]].cancelled THEN @
                                     ELSE IF ts[pending[hash]].pc = "wait" THEN "parked"
                                     ELSE IF ts[pending[hash]].pc # "spawned"
                                            THEN ts[pending[hash]].pc
                                     ELSE IF ts[pending[hash]].timer THEN "elapsed"
                                     ELSE "spawned"],
            missing |-> FALSE]

\* go func(ctx) {...}(ctx): the task is launched; it has yet to reach its select.
\* pc: "spawned" (lines 425-428, the ticker running), "wait" (blocked in the
\* select of line 429, neither case ready when it got there), "append" (line
\* 431), "remove" and "removeLocked" (line 437), "done", "canceled" (line 440).
\* cancelled: the cancel func of its ctx was called; cancelBy: by whom;
\* cancelAt: where the task was at the first such call ("spawned": before its
\* select, ticker not yet fired; "elapsed": before its select, ticker fired;
\* "parked": blocked in its select);
\* appends: its addValTellor calls;
\* missing: its removePending found no entry;
\* lateTimer: its ticker fired with self.ctx already cancelled.
NewTask(event) ==
    [event |-> event, pc |-> "spawned", timer |-> FALSE, cancelled |-> FALSE,
     cancelBy |-> {}, cancelAt |-> "", appends |-> 0, missing |-> FALSE,
     lateTimer |-> FALSE]

\* Stop: self.close()
Stop ==
    /\ ~ctxDone
    /\ ctxDone' = TRUE
    /\ UNCHANGED <<dpc, curEvent, pendingAppend, mtx, tasks, nEvents, subMissing, mvars,
                   avars, evLog>>

\* Lines 366-379: return when ctx is done, else newSubTellor; a failure waits a tick.
InitSubscribe ==
    /\ dpc = "initSub"
    /\ IF ctxDone
         THEN dpc' = "stopped"
         ELSE \/ dpc' = "active"
              \/ dpc' = "initWait"
    /\ UNCHANGED <<ctxDone, curEvent, pendingAppend, mtx, tasks, nEvents,
                   subMissing, mvars, avars, evLog>>

\* Line 375: <-ticker.C; continue
InitTick ==
    /\ dpc = "initWait"
    /\ dpc' = "initSub"
    /\ UNCHANGED <<ctxDone, curEvent, pendingAppend, mtx, tasks, nEvents, subMissing,
                   mvars, avars, evLog>>

\* Lines 383-384: case <-self.ctx.Done(): return
ActiveDone ==
    /\ dpc = "active"
    /\ ctxDone
    /\ dpc' = "stopped"
    /\ UNCHANGED <<ctxDone, curEvent, pendingAppend, mtx, tasks, nEvents, subMissing,
                   mvars, avars, evLog>>

\* Lines 385-391: case err := <-sub.Err(): log it and go on to re-subscribe.
ActiveSubErr ==
    /\ dpc = "active"
    /\ dpc' = "resub"
    /\ UNCHANGED <<ctxDone, curEvent, pendingAppend, mtx, tasks, nEvents,
                   subMissing, mvars, avars, evLog>>

\* A re-subscribe loop that gives up at the first failed newSubTellor.
ResubscribeGivesUp ==
    /\ dpc = "resub"
    /\ IF ctxDone
         THEN dpc' = "stopped"
         ELSE \/ dpc' = "active"
              \/ dpc' = "stopped"
    /\ UNCHANGED <<ctxDone, curEvent, pendingAppend, mtx, tasks, nEvents,
                   subMissing, mvars, avars, evLog>>

\* Lines 394-408: return when ctx is done, else newSubTellor; a failure waits a tick.
Resubscribe ==
    /\ dpc = "resub"
    /\ IF ctxDone
         THEN dpc' = "stopped"
         ELSE \/ dpc' = "active"
              \/ dpc' = "resubWait"
    /\ UNCHANGED <<ctxDone, curEvent, pendingAppend, mtx, tasks, nEvents,
                   subMissing, mvars, avars, evLog>>

\* Line 403: <-ticker.C; continue
ResubTick ==
    /\ dpc = "resubWait"
    /\ dpc' = "resub"
    /\ UNCHANGED <<ctxDone, curEvent, pendingAppend, mtx, tasks, nEvents, subMissing,
                   mvars, avars, evLog>>

\* Lines 409-418: case event := <-events; a removed event calls removePending,
\* any other goes on to line 420.
ActiveEvent ==
    /\ dpc = "active"
    /\ nEvents < MaxEvents
    /\ nEvents' = nEvents + 1
    /\ \E event \in DisputeEvents :
        /\ nEvents = 0 => event.TxHash = FirstHash
        /\ curEvent' = event
        /\ evLog' = Append(evLog, event)
        /\ dpc' = IF event.Removed THEN "remove" ELSE "register"
    /\ UNCHANGED <<ctxDone, pendingAppend, mtx, tasks, subMissing, mvars, avars>>

\* Line 417 -> 450: removePending takes the lock.
SubRemoveLock ==
    /\ dpc = "remove"
    /\ mtx = Free
    /\ mtx' = Sub
    /\ dpc' = "removeLocked"
    /\ UNCHANGED <<ctxDone, curEvent, pendingAppend, tasks, nEvents, subMissing, mvars,
                   avars, evLog>>

\* Lines 452-458 and the deferred Unlock; removePending returns to line 418 and
\* Start goes on with line 420: there is no continue after the call.
SubRemove ==
    /\ dpc = "removeLocked"
    /\ mtx = Sub
    /\ LET r == RemovePending(pendingAppend, tasks, curEvent.TxHash, Sub)
       IN  /\ pendingAppend' = r.pending
           /\ tasks' = r.tasks
           /\ subMissing' = IF r.missing THEN subMissing + 1 ELSE subMissing
    /\ mtx' = Free
    /\ dpc' = "register"
    /\ UNCHANGED <<ctxDone, curEvent, nEvents, mvars, avars, evLog>>

\* A registration that does not wait for the lock to be free.
RegisterLockNoWait ==
    /\ dpc = "register"
    /\ mtx' = Sub
    /\ dpc' = "registerLocked"
    /\ UNCHANGED <<ctxDone, curEvent, pendingAppend, tasks, nEvents,
                   subMissing, mvars, avars, evLog>>

\* Lines 420-421: ctx, cncl := context.WithCancel(self.ctx); self.mtx.Lock()
RegisterLock ==
    /\ dpc = "register"
    /\ mtx = Free
    /\ mtx' = Sub
    /\ dpc' = "registerLocked"
    /\ UNCHANGED <<ctxDone, curEvent, pendingAppend, tasks, nEvents, subMissing, mvars,
                   avars, evLog>>

\* Lines 422-442: the cancel func is stored under the event's hash, replacing
\* what was there; the lock is released; the delayed-commit task is launched.
Register ==
    /\ dpc = "registerLocked"
    /\ mtx = Sub
    /\ pendingAppend' = [pendingAppend EXCEPT ![curEvent.TxHash] = Len(tasks) + 1]
    /\ tasks' = Append(tasks, NewTask(curEvent))
    /\ mtx' = Free
    /\ curEvent' = NoEvent
    /\ dpc' = "active"
    /\ UNCHANGED <<ctxDone, nEvents, subMissing, mvars, avars, evLog>>

\* ctx.Done() of task t is closed: its cancel func was called or self.ctx is cancelled.
CtxDone(t) == tasks[t].cancelled \/ ctxDone

\* The reorgEventWait ticker of task t fires. A task blocked in its select is
\* woken by it and takes case <-ticker.C (line 430); a task that a closed
\* ctx.Done() has already woken is no longer waiting for the ticker.
TimerElapse(t) ==
    /\ ~tasks[t].timer
    /\ \/ tasks[t].pc = "spawned"
       \/ tasks[t].pc = "wait" /\ ~CtxDone(t)
    /\ tasks' = [tasks EXCEPT ![t].timer = TRUE,
                              ![t].lateTimer = ctxDone,
                              ![t].pc = IF @ = "wait" THEN "append" ELSE @]
    /\ UNCHANGED <<dpc, ctxDone, curEvent, pendingAppend, mtx, nEvents, subMissing,
                   mvars, avars, evLog>>

\* Line 429: task t reaches its select with neither case ready and blocks.
TaskPark(t) ==
    /\ tasks[t].pc = "spawned"
    /\ ~tasks[t].timer
    /\ ~CtxDone(t)
    /\ tasks' = [tasks EXCEPT ![t].pc = "wait"]
    /\ UNCHANGED <<dpc, ctxDone, curEvent, pendingAppend, mtx, nEvents, subMissing,
                   mvars, avars, evLog>>

\* Line 430: task t reaches its select with the ticker fired and takes
\* case <-ticker.C; when ctx.Done() is ready too, select picks either case.
TaskFire(t) ==
    /\ tasks[t].pc = "spawned"
    /\ tasks[t].timer
    /\ tasks' = [tasks EXCEPT ![t].pc = "append"]
    /\ UNCHANGED <<dpc, ctxDone, curEvent, pendingAppend, mtx, nEvents, subMissing,
                   mvars, avars, evLog>>

\* Lines 438-440: the select of task t takes case <-ctx.Done(), on reaching
\* the select or woken from it, and the task returns.
TaskCanceled(t) ==
    /\ tasks[t].pc \in {"spawned", "wait"}
    /\ CtxDone(t)
    /\ tasks' = [tasks EXCEPT ![t].pc = "canceled"]
    /\ UNCHANGED <<dpc, ctxDone, curEvent, pendingAppend, mtx, nEvents, subMissing,
                   mvars, avars, evLog>>

\* Lines 431-436: self.addValTellor(event). What the call does to the store is
\* AddValTellor; its error is only logged, so the task goes on to line 437
\* whatever the call returned.
TaskAddVal(t) ==
    /\ tasks[t].pc = "append"
    /\ tasks' = [tasks EXCEPT ![t].pc = "remove", ![t].appends = @ + 1]
    /\ UNCHANGED <<dpc, ctxDone, curEvent, pendingAppend, mtx, nEvents, subMissing,
                   mvars, avars, evLog>>

\* Line 437 -> 450: removePending takes the lock.
TaskRemoveLock(t) ==
    /\ tasks[t].pc = "remove"
    /\ mtx = Free
    /\ mtx' = t
    /\ tasks' = [tasks EXCEPT ![t].pc = "removeLocked"]
    /\ UNCHANGED <<dpc, ctxDone, curEvent, pendingAppend, nEvents, subMissing, mvars,
                   avars, evLog>>

\* Lines 452-458 and the deferred Unlock; the task ends.
TaskRemove(t) ==
    /\ tasks[t].pc = "removeLocked"
    /\ mtx = t
    /\ LET r == RemovePending(pendingAppend, tasks, tasks[t].event.TxHash, t)
       IN  /\ pendingAppend' = r.pending
           /\ tasks' = [r.tasks EXCEPT ![t].pc = "done", ![t].missing = r.missing]
    /\ mtx' = Free
    /\ UNCHANGED <<dpc, ctxDone, curEvent, nEvents, subMissing,
                   mvars, avars, evLog>>

DisputeNext ==
    \/ Stop
    \/ InitSubscribe
    \/ InitTick
    \/ ActiveDone
    \/ ActiveSubErr
    \/ Resubscribe
    \/ ResubTick
    \/ ActiveEvent
    \/ SubRemoveLock
    \/ SubRemove
    \/ RegisterLock
    \/ Register
    \/ \E t \in DOMAIN tasks : TimerElapse(t)
    \/ \E t \in DOMAIN tasks : TaskPark(t)
    \/ \E t \in DOMAIN tasks : TaskFire(t)
    \/ \E t \in DOMAIN tasks : TaskCanceled(t)
    \/ \E t \in DOMAIN tasks : TaskAddVal(t)
    \/ \E t \in DOMAIN tasks : TaskRemoveLock(t)
    \/ \E t \in DOMAIN tasks : TaskRemove(t)

(***************************************************************************)
(* Properties of the dispute tracker, checked under SpecDispute.           *)
(***************************************************************************)
TasksOf(hash) == { t \in DOMAIN tasks : tasks[t].event.TxHash = hash }

EventsOf(hash) == SelectSeq(evLog, LAMBDA e : e.TxHash = hash)

Finished(t) == tasks[t].pc \in {"done", "canceled"}

\* The addValTellor calls made so far for the events of a hash.
WritesOf(hash) == Cardinality({ <<t, k>> \in TasksOf(hash) \X (1..MaxEvents) :
                                  k <= tasks[t].appends })

\* No removed event for the hash was received.
NeverRemoved(hash) == \A k \in DOMAIN evLog :
                          evLog[k].TxHash = hash => ~evLog[k].Removed

\* The subscription task is not in the middle of an event of the hash.
Settled(hash) == curEvent.TxHash # hash

\* C1: with the root context not cancelled, when the events of a hash are one
\* append-tagged event and then a removed event that cancelled the pending
\* commit while it waited in its select,
\* addValTellor is never called for that hash, and once every task of the hash
\* has finished the pending map has no entry for it.
C1_RemovedBeforeWait ==
    \A hash \in Hashes :
        LET ev == EventsOf(hash)
        IN  ( /\ ~ctxDone
              /\ Len(ev) = 2
              /\ ~ev[1].Removed
              /\ ev[2].Removed
              /\ \E t \in TasksOf(hash) :
                    /\ ~tasks[t].event.Removed
                    /\ Sub \in tasks[t].cancelBy
                    /\ tasks[t].cancelAt = "parked" )
            => /\ WritesOf(hash) = 0
               /\ ((Settled(hash) /\ \A t \in TasksOf(hash) : Finished(t))
                     => pendingAppend[hash] = 0)

\* C2 (its safety part): with the root context not cancelled, a delayed-commit
\* task of an append-tagged event whose hash received no removed event never
\* ends without having called addValTellor exactly once, and once the last task
\* of the hash is done the pending map has no entry for the hash.
C2_AppendedExactlyOnce ==
    \A t \in DOMAIN tasks :
        ( /\ ~ctxDone
          /\ ~tasks[t].event.Removed
          /\ NeverRemoved(tasks[t].event.TxHash)
          /\ Finished(t) )
        => /\ tasks[t].appends = 1
           /\ ((Settled(tasks[t].event.TxHash)
                  /\ \A u \in TasksOf(tasks[t].event.TxHash) : Finished(u))
                 => pendingAppend[tasks[t].event.TxHash] = 0)

\* C3: addValTellor is called at most once per hash, and a task whose cancel
\* func a removed event called while the task waited in its select never
\* calls addValTellor.
C3_CommitAtMostOnce ==
    /\ \A hash \in Hashes : WritesOf(hash) <= 1
    /\ \A t \in DOMAIN tasks :
          (Sub \in tasks[t].cancelBy /\ tasks[t].cancelAt = "parked")
            => tasks[t].appends = 0

\* C4: per hash at most one task is waiting with its context not cancelled, and
\* its cancel func is the one pendingAppend holds for the hash.
C4_OnePendingPerKey ==
    ~ctxDone =>
        \A hash \in Hashes :
            LET live == { t \in TasksOf(hash) :
                            tasks[t].pc \in {"spawned", "wait"} /\ ~tasks[t].cancelled }
            IN  /\ Cardinality(live) <= 1
                /\ \A t \in live : pendingAppend[hash] = t

\* C12: the subscription task returns only with the root context cancelled;
\* a failed newSubTellor, in the initial loop or the re-subscribe loop, leads to
\* the tick wait and back to the same loop, and an error on sub.Err() in the
\* active select leads to the re-subscribe loop; no count of failures is kept.
C12_StopsOnlyOnCancel ==
    [][ /\ (dpc # "stopped" /\ dpc' = "stopped") => ctxDone
        /\ (dpc = "initSub" /\ dpc' # dpc) => dpc' \in {"stopped", "active", "initWait"}
        /\ (dpc = "initWait" /\ dpc' # dpc) => dpc' = "initSub"
        /\ (dpc = "active" /\ dpc' # dpc) =>
              dpc' \in {"stopped", "resub", "remove", "register"}
        /\ (dpc = "active" /\ dpc' \in {"remove", "register"}) => nEvents' = nEvents + 1
        /\ (dpc = "resub" /\ dpc' # dpc) => dpc' \in {"stopped", "active", "resubWait"}
        /\ (dpc = "resubWait" /\ dpc' # dpc) => dpc' = "resub"
        /\ dpc = "stopped" => dpc' = "stopped" ]_vars

\* After events were consumed, an error on sub.Err() and a failed re-subscribe,
\* the task is in the tick wait of the re-subscribe loop, not stopped.
C12_Witness ==
    /\ dpc = "resubWait"
    /\ ~ctxDone
    /\ nEvents = MaxEvents
    /\ tasks # <<>>

\* C13 (its safety part): a delayed-commit task whose ticker had not fired when
\* the root context was cancelled never calls addValTellor afterwards.
C13_NoWriteAfterStop ==
    \A t \in DOMAIN tasks :
        (ctxDone /\ (~tasks[t].timer \/ tasks[t].lateTimer)) =>
            /\ tasks[t].appends = 0
            /\ tasks[t].pc \in {"spawned", "wait", "canceled"}

\* C14: with the root context not cancelled, a removed event is never taken
\* to the registration of lines 420-423
\* and no delayed-commit task is ever launched for one; so such an event
\* never makes a pending-map entry and is never passed to addValTellor.
C14_RemovedOnlyCancels ==
    ~ctxDone =>
        /\ dpc \in {"register", "registerLocked"} => ~curEvent.Removed
        /\ \A t \in DOMAIN tasks : ~tasks[t].event.Removed

\* C15: with the root context not cancelled, a delayed-commit task whose
\* cancel func removePending called for a removed event before its ticker had
\* fired, the task blocked in its select or still on its way to it, never
\* calls addValTellor.
C15_CancelPreventsAppend ==
    \A t \in DOMAIN tasks :
        ( /\ ~ctxDone
          /\ Sub \in tasks[t].cancelBy
          /\ tasks[t].cancelAt \in {"spawned", "parked"} ) =>
            /\ tasks[t].appends = 0
            /\ tasks[t].pc \in {"spawned", "wait", "canceled"}

\* The tasks between Lock and Unlock of self.mtx, by their positions.
Holders ==
    (IF dpc \in {"removeLocked", "registerLocked"} THEN {Sub} ELSE {})
      \cup { t \in DOMAIN tasks : tasks[t].pc = "removeLocked" }

\* C16: at most one task is between Lock and Unlock of mtx, and mtx records it;
\* such a task is at the map registration or inside removePending, so never in
\* its reorg wait nor in addValTellor; and every step that changes pendingAppend
\* is taken by the holder of mtx, which releases it in that step.
C16_MapUnderLock ==
    /\ [](/\ Cardinality(Holders) <= 1
          /\ Holders = (IF mtx = Free THEN {} ELSE {mtx})
          /\ \A t \in DOMAIN tasks :
                tasks[t].pc \in {"spawned", "wait", "append", "remove"} => mtx # t)
    /\ [][ pendingAppend' # pendingAppend =>
             /\ mtx # Free
             /\ mtx' = Free
             /\ IF mtx = Sub
                  THEN dpc \in {"removeLocked", "registerLocked"} /\ dpc' # dpc
                  ELSE tasks[mtx].pc = "removeLocked" /\ tasks'[mtx].pc = "done" ]_vars

\* A delayed-commit task is inside removePending with the lock while the
\* subscription task waits for it at line 421, an entry still in the map.
C16_Witness ==
    /\ mtx \in DOMAIN tasks
    /\ dpc = "register"
    /\ \E hash \in Hashes : pendingAppend[hash] # 0

\* C19: with the root context not cancelled, the cancel func of a delayed-commit
\* task is called only by removePending for a removed event or by the task's own
\* removePending after its append, never by the removePending of another task,
\* and no task's removePending finds the entry of its hash missing.
C19_RemovesOnlyOwn ==
    ~ctxDone =>
        \A t \in DOMAIN tasks :
            /\ tasks[t].cancelBy \subseteq {Sub, t}
            /\ ~tasks[t].missing

(***************************************************************************)
(* Properties of addValTellor, checked under SpecAppend.                   *)
(***************************************************************************)
CallsOf(res, ops) == { k \in DOMAIN res.calls : res.calls[k].op \in ops }

\* The i-th Append made on the appender.
RECURSIVE Appends(_)
Appends(calls) ==
    IF calls = <<>> THEN <<>>
    ELSE IF calls[1].op = "Append" /\ calls[1].labels # {}
           THEN <<calls[1]>> \o Appends(Tail(calls))
           ELSE Appends(Tail(calls))

\* v is the number the *big.Int b holds (v is below 2^63 in the model).
Carries(v, b) == b.hi = 0 /\ v = b.lo

\* C5: when an Append or the GetValue of observation i fails, addValTellor makes
\* no call for a later observation (the failed call is its last Append or
\* GetValue), calls Rollback, never calls Commit, and commits no sample.
C5_FailureRollsBack ==
    (apc = "returned" /\ aEnv.failAt # 0) =>
        /\ Cardinality(CallsOf(aRes, {"Append", "GetValue"})) = aEnv.failAt
        /\ aRes.done = (aEnv.failAt - 1) \div 3
        /\ CallsOf(aRes, {"Rollback"}) = {Len(aRes.calls)}
        /\ CallsOf(aRes, {"Commit"}) = {}
        /\ aRes.committed = <<>>
        /\ aRes.buf = <<>>

\* An Append fails on the second observation of a 2-observation event.
C5_Witness ==
    /\ apc = "returned"
    /\ Len(aEvent.Value) = 2
    /\ aEnv.failAt = 4
    /\ CallsOf(aRes, {"Rollback"}) # {}
    /\ aRes.committed = <<>>

\* C6: every call of addValTellor ends with exactly one call of Commit or
\* Rollback on its appender, the last call it makes.
C6_ResolvedExactlyOnce ==
    apc = "returned" =>
        /\ Cardinality(CallsOf(aRes, {"Commit", "Rollback"})) = 1
        /\ CallsOf(aRes, {"Commit", "Rollback"}) = {Len(aRes.calls)}
        /\ aRes.buf = <<>>

\* A call whose GetValue failed and whose Rollback failed as well.
C6_Witness ==
    /\ apc = "returned"
    /\ aEnv.failAt = 2
    /\ aEnv.rollbackFails
    /\ aRes.log # <<>>
    /\ Cardinality(CallsOf(aRes, {"Rollback"})) = 1

C11_CommitFailureReported ==
    (apc = "returned" /\ aEnv.failAt = 0 /\ aEnv.commitFails) =>
        /\ aRes.err
        /\ CallsOf(aRes, {"Commit"}) = {Len(aRes.calls)}
        /\ Len(Appends(aRes.calls)) = 2 * Len(aEvent.Value)
        /\ aRes.committed = <<>>

(***************************************************************************)
(* Properties of the mining loop, checked under SpecMining.                *)
(***************************************************************************)
NonNil(results) == SelectSeq(results, LAMBDA r : r # Nil)

NilCount(seq) == Cardinality({ k \in DOMAIN seq : seq[k] = Nil })

\* C8: the HandleSolution calls are, in order, the (challenge, nonce) pairs of
\* the non-nil Results the loop received: one call per such Result, none for nil.
C8_OneSubmitPerResult ==
    LET nn == NonNil(recvd)
    IN  handled = [k \in 1..Len(nn) |->
                      <<Deref(Deref(nn[k]).Work).Challenge, Deref(nn[k]).Nonce>>]

\* The loop received two Results and then the nil sentinel.
C8_Witness ==
    /\ mpc = "done"
    /\ Len(recvd) = 3
    /\ Len(handled) = 2
    /\ handled[1] = handled[2]

\* C9: every shutdown signal the loop has read has been followed by a nil Work
\* (delivered to the pool, or being sent), and the task has exited only if the
\* last Result it received is nil.
C9_ExitOnlyAfterNilResult ==
    /\ (sigs - exitCh) = NilCount(inputLog)
                          + (IF mpc = "sendInput" /\ sendVal = Nil THEN 1 ELSE 0)
    /\ mpc = "done" => (recvd # <<>> /\ Last(recvd) = Nil /\ NilCount(inputLog) > 0)

\* The task exited after a shutdown signal, the nil Work and the nil Result.
C9_Witness ==
    /\ mpc = "done"
    /\ exitSeenAt # -1
    /\ Last(inputLog) = Nil
    /\ Last(recvd) = Nil

\* C10: once the loop has read the shutdown signal it makes no further
\* HandleSolution call.
C10_NoSubmitAfterShutdown ==
    exitSeenAt # -1 => Len(handled) = exitSeenAt

\* C17: sendWork is called once at startup and once per tick; a call in which
\* PullUpdates returned a challenge makes one send on input, of a Work with that
\* challenge and N = math.MaxInt64, and a call in which it returned nil makes
\* none and leaves input as it was; the pool receives each send exactly once.
C17_SendWorkPushesOnUpdate ==
    [][ /\ (mpc # "sendWork" /\ mpc' = "sendWork") =>
              \/ mpc = "config"
              \/ mpc = "select" /\ ticks' = ticks + 1
        /\ (mpc = "sendWork" /\ mpc' # mpc) =>
              IF lastPull' # NoChallenge
                THEN /\ mpc' = "sendInput"
                     /\ sendVal' # Nil
                     /\ Deref(sendVal').Challenge = lastPull'
                     /\ Deref(sendVal').N = MaxInt64
                     /\ inputLog' = inputLog
                ELSE /\ mpc' = "select"
                     /\ sendVal' = sendVal
                     /\ inputLog' = inputLog
        /\ (mpc = "sendInput" /\ mpc' # mpc) =>
              mpc' = "select" /\ inputLog' = Append(inputLog, sendVal)
        /\ inputLog' # inputLog => mpc = "sendInput" ]_vars

\* Three sendWork calls, no shutdown signal: one pushed a Work, which the pool
\* received, and the latest one found no update and pushed nothing.
C17_Witness ==
    /\ mpc = "select"
    /\ sigs = 0
    /\ ticks = 2
    /\ lastPull = NoChallenge
    /\ Len(inputLog) = 1
    /\ inputLog[1] # Nil
    /\ Deref(inputLog[1]).N = MaxInt64

\* C18 (its deadlock part): the loop is never blocked in a send on input, of a
\* Work or of nil, when the pool has consumed the nil Work and reads input no
\* more.
C18_NoDeadlock ==
    ~(mpc = "sendInput" /\ poolStop)

\* C20: Running is true exactly while the goroutine launched by Start is running
\* and has not received the nil Result; it is false before Start and after the
\* goroutine returned.
C20_RunningTracksLoop ==
    Running <=> mpc \in {"config", "sendWork", "sendInput", "select"}

AppendNext ==
    \/ CallAddValTellor

InitMining == MiningInit /\ AppendIdle /\ DisputeInit
InitAppend == AppendInit /\ MiningInit /\ DisputeInit
InitDispute == DisputeInit /\ MiningInit /\ AppendIdle

SpecDispute == InitDispute /\ [][DisputeNext]_vars

SpecMining == InitMining /\ [][MiningNext]_vars

SpecAppend == InitAppend /\ [][AppendNext]_vars

====
